---- MODULE Spec2Model ----
(***************************************************************************)
(* Incremental documentation sync jobs of the ai-docs plugin.              *)
(*                                                                         *)
(* Every job is a script `sync-docs.ts` that walks a configured list of    *)
(* resources, fetches each one (HTTP GET, or a file of a cloned            *)
(* repository), compares its sha256 with the entry of the manifest written *)
(* by the previous run, writes the changed ones and finally replaces the   *)
(* manifest.  One behaviour of this module is a sequence of runs of one    *)
(* job, with the remote source and the manifest file changing between the  *)
(* runs.                                                                   *)
(***************************************************************************)
EXTENDS Integers, Sequences, FiniteSets, TLC

(***************************************************************************)
(* Bounds of the model.                                                    *)
(***************************************************************************)
\* length of the configured resource list of every job (DOC_PAGES, DOC_PATHS)
NumResources == 2
\* length of the page list of gemini-dev when its fetches are followed: more
\* than one batch
NumPages == 6
\* number of runs of the job in one behaviour
MaxRuns == 3
\* number of changes of the remote source / tamperings of the manifest file
MaxChanges == 1
\* number of I/O faults (network error, read error, write error, clone error)
\* in one behaviour
MaxFaults == 1

(***************************************************************************)
(* Jobs.                                                                   *)
(***************************************************************************)
DirectUrlJobs == {"claude-api", "claude-code"}

RepoJobs == {"openai-codex", "openai-api", "gemini-cli"}

ManifestJobs == DirectUrlJobs \cup RepoJobs

Jobs == ManifestJobs \cup {"gemini-dev"}

\* the positions of the configured list, in list order
DOC_PAGES == 1 .. NumResources

\* key of the supplementary changelog of the claude-code job ("changelog")
ChangelogKey == 0

\* key of a resource that was in the list when the manifest was written and
\* is in it no more
OrphanKey == NumResources + 1

AllKeys == {ChangelogKey} \cup DOC_PAGES \cup {OrphanKey} \cup (1 .. NumPages)

\* the resources a job accounts for: its list, plus the changelog
JobKeys(j) ==
    IF j = "claude-code" THEN {ChangelogKey} \cup DOC_PAGES ELSE DOC_PAGES

\* the total printed by the summary
Total(j) == IF j = "claude-code" THEN NumResources + 1 ELSE NumResources

(***************************************************************************)
(* Contents.  A content is a small number; its length and its markers are  *)
(* what the validation of fetchDoc looks at.                               *)
(*   1, 2  two markdown documents                                          *)
(*   3     a markdown stub shorter than the minimum                        *)
(*   4     an HTML page starting with <!DOCTYPE                            *)
(***************************************************************************)
\* response.ok is false / the source file is not in the clone
Absent == 0

\* what fetchDoc returns for "not available"
Null == 0

\* no file at the destination path
NoFile == 0

\* a destination file left truncated by a write that threw
Partial == 9

\* a destination file somebody else has edited
Edited == 8

Markdown == {1, 2}

\* gemini-dev: an HTML page on which extraction or conversion throws
Unconvertible == 3

Contents == {1, 2, 3, 4}

MinLength == 50

ContentLength(c) == CASE c = 1 -> 60 [] c = 2 -> 80 [] c = 3 -> 10 [] OTHER -> 200

StartsWithDoctype(c) == c = 4

IncludesHtml(c) == c = 4

\* what the remote can serve for a key of a job
RemoteDomain(j, k) ==
    IF j \in DirectUrlJobs THEN {Absent} \cup Contents
    ELSE IF j = "gemini-dev" THEN {Absent} \cup Markdown \cup {Unconvertible}
    ELSE {Absent} \cup Markdown

hashContent(c) == 100 + c

(***************************************************************************)
(* Manifest.                                                               *)
(***************************************************************************)
\* manifest.files[key] is undefined
NoEntry == [key |-> -1, hash |-> 0, lastUpdated |-> 0]

NoFiles == [k \in AllKeys |-> NoEntry]

\* the manifest file: kind is "missing", "corrupt" (not JSON), "notmanifest"
\* (JSON without a files object) or "ok"
MissingFile ==
    [kind |-> "missing", lastSync |-> 0, sourceCommit |-> 0, files |-> NoFiles]

CorruptFile ==
    [kind |-> "corrupt", lastSync |-> 0, sourceCommit |-> 0, files |-> NoFiles]

NotManifestFile ==
    [kind |-> "notmanifest", lastSync |-> 0, sourceCommit |-> 0,
     files |-> NoFiles]

\* the value loadManifest returns when it starts fresh (sourceCommit 0: the
\* empty string; the direct-URL manifests carry the constant source URL)
EmptyManifest ==
    [hasFiles |-> TRUE, lastSync |-> 0, sourceCommit |-> 0, files |-> NoFiles]

\* loadManifest without the try/catch around JSON.parse
loadManifestUncaught(file) ==
    IF file.kind = "missing" THEN EmptyManifest
    ELSE [hasFiles |-> file.kind = "ok", lastSync |-> file.lastSync,
          sourceCommit |-> file.sourceCommit, files |-> file.files]

loadManifest(file) ==
    IF file.kind = "missing" THEN EmptyManifest
    ELSE IF file.kind = "corrupt" THEN EmptyManifest
    ELSE [hasFiles |-> file.kind = "ok", lastSync |-> file.lastSync,
          sourceCommit |-> file.sourceCommit, files |-> file.files]

\* saveManifest stamping every entry like lastSync
saveManifestRestamps(m, t) ==
    [kind |-> "ok", lastSync |-> t, sourceCommit |-> m.sourceCommit,
     files |-> [k \in AllKeys |->
                  IF m.files[k] = NoEntry THEN NoEntry
                  ELSE [m.files[k] EXCEPT !.lastUpdated = t]]]

\* what saveManifest writes: lastSync stamped, the whole structure serialized
saveManifest(m, t) ==
    [kind |-> "ok", lastSync |-> t, sourceCommit |-> m.sourceCommit,
     files |-> m.files]

\* the entry with the hash of the key in place of the hash of the content
NewEntryHashesKey(k, h, t) ==
    [key |-> k, hash |-> hashContent(k), lastUpdated |-> t]

NewEntry(k, h, t) == [key |-> k, hash |-> h, lastUpdated |-> t]

Keyed(files) == {k \in AllKeys : files[k] # NoEntry}

\* the manifest file as a run with the longer list had left it
WithOrphan(file) ==
    [kind |-> "ok", lastSync |-> file.lastSync,
     sourceCommit |-> file.sourceCommit,
     files |-> [file.files EXCEPT
                  ![OrphanKey] = [key |-> OrphanKey, hash |-> hashContent(1),
                                  lastUpdated |-> 0]]]

(***************************************************************************)
(* fetchDoc: the direct-URL fetch contract.                                *)
(***************************************************************************)
fetchDoc(resp, netError) ==
    IF netError THEN Null
    ELSE IF resp = Absent THEN Null
    ELSE IF StartsWithDoctype(resp) \/ IncludesHtml(resp) THEN Null
    ELSE IF ContentLength(resp) < MinLength THEN Null
    ELSE resp

(***************************************************************************)
(* State.                                                                  *)
(***************************************************************************)
VARIABLES
    job,           \* the script this behaviour runs
    remote,        \* key -> what the origin serves (Absent or a content)
    head,          \* repository jobs: the commit at the head of the origin
    manifestFile,  \* resources/manifest.json
    destFiles,     \* key -> content of the destination file (NoFile if none)
    dirs,          \* the resources directory (and its subdirectories) exists
    now,           \* the clock: number of the current run
    changes,       \* changes of the environment so far
    pc,            \* position of main()
    isDryRun,      \* --dry-run
    commitHash,    \* repository jobs: let commitHash (0: not assigned)
    manifest,      \* const manifest = await loadManifest()
    newManifest,   \* const newManifest
    i,             \* position of the for loop in the list
    fetched,       \* let fetched / copied
    unchanged,     \* let unchanged
    failed,        \* let failed
    log,           \* per attempted resource: key, printed status, increments
    faults,        \* I/O faults: those of this run (<<kind, key>>), and how many so far
    start,         \* the disk when the run started
    summary,       \* the printed summary
    exitCode,      \* exit status of the process (-1 while it runs)
    results,       \* gemini-dev: const results (page, html)
    inflight,      \* gemini-dev: pages whose fetchPage has not settled
    batchResults,  \* gemini-dev: page -> html of the settled fetches of the batch
    successCount,  \* gemini-dev: let successCount
    firstSynced,   \* key -> lastUpdated persisted when the content the origin
                   \* serves now was first recorded (0: not recorded yet)
    prevRun,       \* record of the previous run
    skills,        \* sync-all: the selected jobs, in the order given
    dryRun,        \* sync-all: --dry-run
    syncResults,   \* sync-all: const results (skill, success)
    cur,           \* sync-all: position of the for loop in skills
    mainPc,        \* sync-all: position of main()
    children,      \* sync-all: positions whose child process is alive
    pending,       \* sync-all: positions whose spawn failed, 'error' not yet
                   \* emitted
    allSummary,    \* sync-all: the printed summary
    allExit,       \* sync-all: exit status of the coordinator (-1: running)
    tampered,      \* somebody else wrote to the manifest file or a destination
    world,         \* two jobs side by side: the directories they use
    world0,        \* two jobs side by side: the directories at the start
    procs,         \* two jobs side by side: the two processes
    origin,        \* two jobs side by side: process -> key -> content served
    pages          \* gemini-dev: DOC_PAGES.length

\* the state of the sync-all coordinator
coord == <<skills, dryRun, syncResults, cur, mainPc, children, pending,
           allSummary, allExit>>

\* the state of two jobs that run side by side
pair == <<world, world0, procs, origin>>

\* what a step of a job run on its own leaves alone
others == <<coord, pair, tampered, pages>>

vars == <<others, job, remote, head, manifestFile, destFiles, dirs, now, changes, pc,
          isDryRun, commitHash, manifest, newManifest, i, fetched, unchanged, failed,
          log, faults, start, summary, exitCode, results, inflight,
          batchResults, successCount, firstSynced, prevRun>>

\* the state of the gemini-dev job
gd == <<results, inflight, batchResults, successCount>>

\* no fetch of the batch has settled
Unsettled == [p \in 1 .. NumPages |-> -1]

disk == <<manifestFile, destFiles, dirs>>

counters == <<fetched, unchanged, failed>>

NoSummary == [printed |-> FALSE, fetched |-> 0, unchanged |-> 0, failed |-> 0,
              total |-> 0]

NoRun == [ran |-> FALSE, dry |-> FALSE, end |-> "none", allDone |-> TRUE,
          startFile |-> MissingFile,
          endFile |-> MissingFile, remote |-> [k \in AllKeys |-> Absent],
          head |-> 0,
          log |-> <<>>, faults |-> {}, summary |-> NoSummary]

NoAllSummary == [printed |-> FALSE, successful |-> 0, failed |-> 0]

\* the coordinator is not running
CoordOff ==
    /\ skills = <<>>
    /\ dryRun = FALSE
    /\ syncResults = <<>>
    /\ cur = 1
    /\ mainPc = "off"
    /\ children = {}
    /\ pending = {}
    /\ allSummary = NoAllSummary
    /\ allExit = -1

\* nothing synced yet, no process started
(***************************************************************************)
(* The directories of the jobs.  RESOURCES_DIR is relative to the script   *)
(* of the job (skills/<job>/scripts), MANIFEST_FILE is manifest.json in    *)
(* it, and the clones of the repository jobs are in /tmp.                  *)
(***************************************************************************)
\* RESOURCES_DIR relative to the working directory of the process
RESOURCES_DIR_Cwd(j) == <<"resources">>

RESOURCES_DIR(j) == <<"skills", j, "resources">>

\* TEMP_DIR; SDK_TEMP and COOKBOOK_TEMP for openai-api
TEMP_DIRS(j) ==
    CASE j = "openai-codex" -> << <<"/tmp", "openai-codex-sync">> >>
      [] j = "openai-api" -> << <<"/tmp", "openai-python-sync">>,
                                <<"/tmp", "openai-cookbook-sync">> >>
      [] j = "gemini-cli" -> << <<"/tmp", "gemini-cli-sync">> >>
      [] OTHER -> <<>>

\* the clone the source file of key k is read from: the last document of
\* openai-api is a cookbook document
SourceDir(j, k) ==
    TEMP_DIRS(j)[IF Len(TEMP_DIRS(j)) = 2 /\ k = NumResources THEN 2 ELSE 1]

\* the directories job j writes to
Used(j) ==
    {RESOURCES_DIR(j)} \cup {TEMP_DIRS(j)[n] : n \in 1 .. Len(TEMP_DIRS(j))}

Dirs == UNION {Used(j) : j \in Jobs}

\* the names in a directory: the keys of the lists and the changelog
PairKeys == {ChangelogKey} \cup DOC_PAGES

NoHashes == [k \in PairKeys |-> 0]

\* nothing was ever synced
EmptyWorld ==
    [files |-> [d \in Dirs |-> [k \in PairKeys |-> NoFile]],
     manifests |-> [d \in Dirs |-> NoHashes]]

\* no two jobs are followed side by side
PairOff ==
    /\ world = EmptyWorld
    /\ world0 = EmptyWorld
    /\ procs = <<>>
    /\ origin = <<>>

Fresh ==
    /\ head = 1
    /\ manifestFile = MissingFile
    /\ destFiles = [k \in AllKeys |-> NoFile]
    /\ dirs = FALSE
    /\ now = 0
    /\ changes = 0
    /\ pc = "idle"
    /\ isDryRun = FALSE
    /\ commitHash = 0
    /\ manifest = EmptyManifest
    /\ newManifest = EmptyManifest
    /\ i = 1
    /\ fetched = 0
    /\ unchanged = 0
    /\ failed = 0
    /\ log = <<>>
    /\ faults = [run |-> {}, used |-> 0]
    /\ tampered = FALSE
    /\ start = [manifestFile |-> MissingFile,
                destFiles |-> [k \in AllKeys |-> NoFile], dirs |-> FALSE]
    /\ summary = NoSummary
    /\ exitCode = -1
    /\ results = <<>>
    /\ inflight = {}
    /\ batchResults = Unsettled
    /\ successCount = 0
    /\ firstSynced = [k \in AllKeys |-> 0]
    /\ prevRun = NoRun

\* the resources of the list of the job
Listed == IF job = "gemini-dev" THEN 1 .. pages ELSE JobKeys(job)

Init ==
    /\ job \in Jobs
    /\ pages = NumResources
    \* the origin serves every listed page, or none of them
    /\ \E v \in {Absent, 1} :
          remote = [k \in AllKeys |-> IF k = ChangelogKey THEN 1 ELSE v]
    /\ Fresh
    /\ CoordOff
    /\ PairOff

(***************************************************************************)
(* The environment, between two runs.                                      *)
(***************************************************************************)
runState == <<pc, isDryRun, commitHash, manifest, newManifest, i, fetched, unchanged,
              failed, log, faults, start, summary, exitCode, gd>>

\* the origin starts serving something else for one resource
RemoteChange ==
    /\ pc = "idle"
    /\ changes < MaxChanges
    /\ \E k \in Listed : \E v \in RemoteDomain(job, k) \ {remote[k]} :
          /\ remote' = [remote EXCEPT ![k] = v]
          /\ firstSynced' = [firstSynced EXCEPT ![k] = 0]
    \* a change of a repository is a new commit
    /\ head' = IF job \in RepoJobs THEN head + 1 ELSE head
    /\ changes' = changes + 1
    /\ UNCHANGED <<others, job, disk, now, runState, prevRun>>

\* somebody else overwrites the manifest file
TamperManifest ==
    /\ pc = "idle"
    /\ job \in ManifestJobs
    /\ changes < MaxChanges
    /\ \E f \in {CorruptFile, NotManifestFile} :
          /\ f # manifestFile
          /\ manifestFile' = f
    /\ dirs' = TRUE
    /\ changes' = changes + 1
    /\ tampered' = TRUE
    /\ UNCHANGED <<firstSynced, coord, pair, pages, job, remote, head, destFiles, now,
                   runState, prevRun>>

\* a resource is taken out of the configured list: the manifest file, if it
\* is a manifest, still has its entry
ListShrinks ==
    /\ pc = "idle"
    /\ job \in ManifestJobs
    /\ changes < MaxChanges
    /\ manifestFile.kind \in {"missing", "ok"}
    /\ manifestFile.files[OrphanKey] = NoEntry
    /\ manifestFile' = WithOrphan(manifestFile)
    /\ destFiles' = [destFiles EXCEPT ![OrphanKey] = 1]
    /\ dirs' = TRUE
    /\ changes' = changes + 1
    /\ UNCHANGED <<firstSynced, others, job, remote, head, now, runState,
                   prevRun>>

\* somebody else deletes or edits a destination file: no job looks at the
\* destination before it decides to write
TamperFile ==
    /\ pc = "idle"
    /\ changes < MaxChanges
    /\ \E k \in Listed : \E v \in {NoFile, Edited} \ {destFiles[k]} :
          destFiles' = [destFiles EXCEPT ![k] = v]
    /\ changes' = changes + 1
    /\ tampered' = TRUE
    /\ UNCHANGED <<firstSynced, coord, pair, pages, job, remote, head, manifestFile,
                   dirs, now, runState, prevRun>>

(***************************************************************************)
(* main(): start, clone, directories, manifest load.                       *)
(***************************************************************************)
CanFault == faults.used < MaxFaults

Faulted(kind, k) ==
    [run |-> faults.run \cup {<<kind, k>>}, used |-> faults.used + 1]

\* the process is started, with or without --dry-run
StartRun ==
    /\ pc = "idle"
    /\ now < MaxRuns
    /\ now' = now + 1
    /\ isDryRun' \in BOOLEAN
    /\ commitHash' = 0
    /\ pc' = IF job \in RepoJobs THEN "clone" ELSE "mkdir"
    /\ manifest' = EmptyManifest
    /\ newManifest' = EmptyManifest
    /\ i' = 1
    /\ fetched' = 0
    /\ unchanged' = 0
    /\ failed' = 0
    /\ log' = <<>>
    /\ faults' = [faults EXCEPT !.run = {}]
    /\ start' = [manifestFile |-> manifestFile, destFiles |-> destFiles,
                 dirs |-> dirs]
    /\ summary' = NoSummary
    /\ exitCode' = -1
    /\ results' = <<>>
    /\ inflight' = {}
    /\ batchResults' = Unsettled
    /\ successCount' = 0
    /\ UNCHANGED <<firstSynced, others, job, remote, head, disk, changes, prevRun>>

\* the uncaught rejection of main(): main().catch(console.error)
\* (gemini-dev awaits syncDocs at top level: the rejection ends the process
\* with status 1)
Crashed == /\ pc' = "crashed"
           /\ exitCode' = IF job = "gemini-dev" THEN 1 ELSE 0

\* cloneOrPullRepo / cloneOrPull succeeds (openai-api: for both repositories)
CloneOk ==
    /\ pc \in {"clone", "clone2"}
    /\ pc' = IF job = "openai-api" /\ pc = "clone" THEN "clone2" ELSE "mkdir"
    \* git rev-parse HEAD
    /\ commitHash' = head
    /\ UNCHANGED <<gd, firstSynced, others, job, remote, head, disk, now, changes, isDryRun, manifest,
                   newManifest, i, counters, log, faults, start, summary,
                   exitCode, prevRun>>

\* CloneFails without the process.exit(1): the error is printed and main
\* goes on
CloneFailsContinues ==
    /\ pc \in {"clone", "clone2"}
    /\ CanFault
    /\ faults' = Faulted(pc, 0)
    /\ pc' = IF job = "openai-api" /\ pc = "clone" THEN "clone2" ELSE "mkdir"
    /\ UNCHANGED <<gd, firstSynced, others, job, remote, head, disk, now, changes,
                   isDryRun, commitHash, manifest, newManifest, i, counters,
                   log, start, summary, exitCode, prevRun>>

\* cloneOrPullRepo throws: process.exit(1)
CloneFails ==
    /\ pc \in {"clone", "clone2"}
    /\ CanFault
    /\ faults' = Faulted(pc, 0)
    /\ pc' = "exited"
    /\ exitCode' = 1
    /\ UNCHANGED <<gd, firstSynced, others, job, remote, head, disk, now, changes, isDryRun, commitHash, manifest,
                   newManifest, i, counters, log, start, summary, prevRun>>

\* if (!isDryRun) await mkdir(RESOURCES_DIR, ...)
EnsureDirs ==
    /\ pc = "mkdir"
    /\ dirs' = IF isDryRun THEN dirs ELSE TRUE
    /\ pc' = IF job = "gemini-dev" THEN "fetch" ELSE "load"
    /\ UNCHANGED <<gd, firstSynced, others, job, remote, head, manifestFile, destFiles, now, changes,
                   isDryRun, commitHash, manifest, newManifest, i, counters, log, faults,
                   start, summary, exitCode, prevRun>>

\* the mkdir throws, outside every try
EnsureDirsThrows ==
    /\ pc = "mkdir"
    /\ ~isDryRun
    /\ CanFault
    /\ faults' = Faulted("mkdir", 0)
    /\ Crashed
    /\ UNCHANGED <<gd, firstSynced, others, job, remote, head, disk, now, changes, isDryRun, commitHash, manifest,
                   newManifest, i, counters, log, start, summary, prevRun>>

\* LoadManifest with the new manifest started from the files of the old one
LoadManifestKeepsFiles ==
    /\ pc = "load"
    /\ manifest' = loadManifest(manifestFile)
    /\ newManifest' = [EmptyManifest EXCEPT !.sourceCommit = commitHash,
                                            !.files = manifest'.files]
    /\ pc' = "loop"
    /\ UNCHANGED <<gd, firstSynced, others, job, remote, head, disk, now, changes,
                   isDryRun, commitHash, i, counters, log, faults, start,
                   summary, exitCode, prevRun>>

\* const manifest = await loadManifest(); const newManifest = {..., files: {}}
LoadManifest ==
    /\ pc = "load"
    /\ manifest' = loadManifest(manifestFile)
    /\ newManifest' = [EmptyManifest EXCEPT !.sourceCommit = commitHash]
    /\ pc' = "loop"
    /\ UNCHANGED <<gd, firstSynced, others, job, remote, head, disk, now, changes, isDryRun, commitHash, i, counters,
                   log, faults, start, summary, exitCode, prevRun>>

(***************************************************************************)
(* main(): the loop over the configured list.                              *)
(***************************************************************************)
\* what stays as it is while the loop runs
ctx == <<gd, firstSynced, others, job, remote, head, now, changes, isDryRun, commitHash, manifest, start, summary,
         prevRun>>

InLoop == pc = "loop" /\ i <= NumResources

\* the content the job obtains for a key when no I/O fault happens:
\* fetchDoc(slug), or existsSync(sourcePath) and readFile(sourcePath)
Obtained(k) ==
    IF job \in DirectUrlJobs THEN fetchDoc(remote[k], FALSE) ELSE remote[k]

\* await new Promise((r) => setTimeout(r, 150)), the last statement of the
\* loop body of the direct-URL jobs (200 in claude-code), in milliseconds
RateLimitDelay(j) ==
    IF j = "claude-api" THEN 150 ELSE IF j = "claude-code" THEN 200 ELSE 0

\* the iteration ends before the last statement of the loop body (continue,
\* throw), or is none of the loop
Logged(k, printed, incs) ==
    log' = Append(log, [key |-> k, printed |-> printed, incs |-> incs,
                        delay |-> 0])

\* the iteration runs to the end of the loop body
LoggedToEnd(k, printed, incs) ==
    log' = Append(log, [key |-> k, printed |-> printed, incs |-> incs,
                        delay |-> RateLimitDelay(job)])

\* oldEntry && oldEntry.hash === hash
SameHash(oldEntry, hash) == oldEntry # NoEntry /\ oldEntry.hash = hash

\* console.log(oldEntry ? " updated" : " new")
Status(oldEntry) == IF oldEntry # NoEntry THEN "updated" ELSE "new"

\* FetchDocFailed with a break in place of the continue
FetchDocFailedBreaks ==
    /\ InLoop
    /\ job \in DirectUrlJobs
    /\ \E netError \in BOOLEAN :
          /\ netError => CanFault
          /\ fetchDoc(remote[i], netError) = Null
          /\ faults' = IF netError THEN Faulted("net", i) ELSE faults
    /\ failed' = failed + 1
    /\ Logged(i, <<"fetch failed">>, <<"failed">>)
    /\ i' = NumResources + 1
    /\ UNCHANGED <<ctx, disk, pc, newManifest, fetched, unchanged, exitCode>>

\* direct-URL jobs: fetchDoc returned null: failed++; continue
FetchDocFailed ==
    /\ InLoop
    /\ job \in DirectUrlJobs
    /\ \E netError \in BOOLEAN :
          /\ netError => CanFault
          /\ fetchDoc(remote[i], netError) = Null
          /\ faults' = IF netError THEN Faulted("net", i) ELSE faults
    /\ failed' = failed + 1
    /\ Logged(i, <<"fetch failed">>, <<"failed">>)
    /\ i' = i + 1
    /\ UNCHANGED <<ctx, disk, pc, newManifest, fetched, unchanged, exitCode>>

\* repository jobs: !existsSync(sourcePath): " not found", failed++; continue
SourceNotFound ==
    /\ InLoop
    /\ job \in RepoJobs
    /\ remote[i] = Absent
    /\ failed' = failed + 1
    /\ Logged(i, <<"not found">>, <<"failed">>)
    /\ i' = i + 1
    /\ UNCHANGED <<ctx, disk, pc, newManifest, fetched, unchanged, faults,
                   exitCode>>

\* repository jobs: readFile(sourcePath) throws inside the try
ReadThrows ==
    /\ InLoop
    /\ job \in RepoJobs
    /\ remote[i] # Absent
    /\ CanFault
    /\ faults' = Faulted("read", i)
    /\ failed' = failed + 1
    /\ Logged(i, <<"error">>, <<"failed">>)
    /\ i' = i + 1
    /\ UNCHANGED <<ctx, disk, pc, newManifest, fetched, unchanged, exitCode>>

\* direct-URL jobs: manifest.files is undefined, the lookup throws outside
\* every try
LookupCrashes ==
    /\ InLoop
    /\ job \in DirectUrlJobs
    /\ Obtained(i) # Null
    /\ ~manifest.hasFiles
    /\ Logged(i, <<>>, <<>>)
    /\ Crashed
    /\ UNCHANGED <<ctx, disk, newManifest, i, counters, faults>>

\* repository jobs: the lookup throws inside the try
LookupCaught ==
    /\ InLoop
    /\ job \in RepoJobs
    /\ Obtained(i) # Null
    /\ ~manifest.hasFiles
    /\ failed' = failed + 1
    /\ Logged(i, <<"error">>, <<"failed">>)
    /\ i' = i + 1
    /\ UNCHANGED <<ctx, disk, pc, newManifest, fetched, unchanged, faults,
                   exitCode>>

\* PageUnchanged rebuilding the entry, with a fresh timestamp
PageUnchangedRestamps ==
    /\ InLoop
    /\ Obtained(i) # Null
    /\ manifest.hasFiles
    /\ SameHash(manifest.files[i], hashContent(Obtained(i)))
    /\ unchanged' = unchanged + 1
    /\ newManifest' = [newManifest EXCEPT
          !.files[i] = NewEntry(i, hashContent(Obtained(i)), now)]
    /\ LoggedToEnd(i, <<"unchanged">>, <<"unchanged">>)
    /\ i' = i + 1
    /\ UNCHANGED <<ctx, disk, pc, fetched, failed, faults, exitCode>>

\* PageUnchanged writing the destination file all the same
PageUnchangedRewrites ==
    /\ InLoop
    /\ Obtained(i) # Null
    /\ manifest.hasFiles
    /\ SameHash(manifest.files[i], hashContent(Obtained(i)))
    /\ unchanged' = unchanged + 1
    /\ IF isDryRun THEN UNCHANGED <<destFiles, dirs>>
       ELSE /\ destFiles' = [destFiles EXCEPT ![i] = Obtained(i)]
            /\ dirs' = TRUE
    /\ newManifest' = [newManifest EXCEPT !.files[i] = manifest.files[i]]
    /\ LoggedToEnd(i, <<"unchanged">>, <<"unchanged">>)
    /\ i' = i + 1
    /\ UNCHANGED <<ctx, manifestFile, pc, fetched, failed, faults, exitCode>>

\* the hash is the stored one: " unchanged", the old entry is carried over
PageUnchanged ==
    /\ InLoop
    /\ Obtained(i) # Null
    /\ manifest.hasFiles
    /\ SameHash(manifest.files[i], hashContent(Obtained(i)))
    /\ unchanged' = unchanged + 1
    /\ newManifest' = [newManifest EXCEPT !.files[i] = manifest.files[i]]
    /\ LoggedToEnd(i, <<"unchanged">>, <<"unchanged">>)
    /\ i' = i + 1
    /\ UNCHANGED <<ctx, disk, pc, fetched, failed, faults, exitCode>>

\* PageWritten that never writes the destination file
PageWrittenSkipsWrite ==
    /\ InLoop
    /\ Obtained(i) # Null
    /\ manifest.hasFiles
    /\ ~SameHash(manifest.files[i], hashContent(Obtained(i)))
    /\ fetched' = fetched + 1
    /\ UNCHANGED <<destFiles, dirs>>
    /\ newManifest' = [newManifest EXCEPT
          !.files[i] = NewEntry(i, hashContent(Obtained(i)), now)]
    /\ LoggedToEnd(i, <<Status(manifest.files[i])>>, <<"fetched">>)
    /\ i' = i + 1
    /\ UNCHANGED <<ctx, manifestFile, pc, unchanged, failed, faults, exitCode>>

\* PageWritten that keeps the lastUpdated of the entry it replaces
PageWrittenKeepsStamp ==
    /\ InLoop
    /\ Obtained(i) # Null
    /\ manifest.hasFiles
    /\ ~SameHash(manifest.files[i], hashContent(Obtained(i)))
    /\ fetched' = fetched + 1
    /\ IF isDryRun THEN UNCHANGED <<destFiles, dirs>>
       ELSE /\ destFiles' = [destFiles EXCEPT ![i] = Obtained(i)]
            /\ dirs' = TRUE
    /\ newManifest' = [newManifest EXCEPT
          !.files[i] = NewEntry(i, hashContent(Obtained(i)),
                                IF manifest.files[i] # NoEntry
                                THEN manifest.files[i].lastUpdated ELSE now)]
    /\ LoggedToEnd(i, <<Status(manifest.files[i])>>, <<"fetched">>)
    /\ i' = i + 1
    /\ UNCHANGED <<ctx, manifestFile, pc, unchanged, failed, faults, exitCode>>

\* PageWritten with fetched++ inside the if (!isDryRun) block
PageWrittenDryUncounted ==
    /\ InLoop
    /\ Obtained(i) # Null
    /\ manifest.hasFiles
    /\ ~SameHash(manifest.files[i], hashContent(Obtained(i)))
    /\ fetched' = IF isDryRun THEN fetched ELSE fetched + 1
    /\ IF isDryRun THEN UNCHANGED <<destFiles, dirs>>
       ELSE /\ destFiles' = [destFiles EXCEPT ![i] = Obtained(i)]
            /\ dirs' = TRUE
    /\ newManifest' = [newManifest EXCEPT
          !.files[i] = NewEntry(i, hashContent(Obtained(i)), now)]
    /\ LoggedToEnd(i, <<Status(manifest.files[i])>>, <<"fetched">>)
    /\ i' = i + 1
    /\ UNCHANGED <<ctx, manifestFile, pc, unchanged, failed, faults, exitCode>>

\* PageWritten with newManifest.files and manifest.files being one object:
\* the fresh entry shows in the previous manifest too
PageWrittenAliased ==
    /\ InLoop
    /\ Obtained(i) # Null
    /\ manifest.hasFiles
    /\ ~SameHash(manifest.files[i], hashContent(Obtained(i)))
    /\ fetched' = fetched + 1
    /\ IF isDryRun THEN UNCHANGED <<destFiles, dirs>>
       ELSE /\ destFiles' = [destFiles EXCEPT ![i] = Obtained(i)]
            /\ dirs' = TRUE
    /\ newManifest' = [newManifest EXCEPT
          !.files[i] = NewEntry(i, hashContent(Obtained(i)), now)]
    /\ manifest' = [manifest EXCEPT
          !.files[i] = NewEntry(i, hashContent(Obtained(i)), now)]
    /\ LoggedToEnd(i, <<Status(manifest.files[i])>>, <<"fetched">>)
    /\ i' = i + 1
    /\ UNCHANGED <<gd, firstSynced, others, job, remote, head, now, changes, isDryRun,
                   commitHash, start, summary, prevRun, manifestFile, pc,
                   unchanged, failed, faults, exitCode>>

\* no entry or another hash: " new" / " updated", the file is written
\* (not in a dry run) and a fresh entry is recorded
PageWritten ==
    /\ InLoop
    /\ Obtained(i) # Null
    /\ manifest.hasFiles
    /\ ~SameHash(manifest.files[i], hashContent(Obtained(i)))
    /\ fetched' = fetched + 1
    /\ IF isDryRun THEN UNCHANGED <<destFiles, dirs>>
       ELSE /\ destFiles' = [destFiles EXCEPT ![i] = Obtained(i)]
            /\ dirs' = TRUE
    /\ newManifest' = [newManifest EXCEPT
          !.files[i] = NewEntry(i, hashContent(Obtained(i)), now)]
    /\ LoggedToEnd(i, <<Status(manifest.files[i])>>, <<"fetched">>)
    /\ i' = i + 1
    /\ UNCHANGED <<ctx, manifestFile, pc, unchanged, failed, faults, exitCode>>

\* what a write that throws leaves at the destination: the file as it was,
\* or a truncated file
WriteFailure(k) ==
    /\ destFiles' \in {destFiles, [destFiles EXCEPT ![k] = Partial]}
    /\ faults' = Faulted("write", k)

\* direct-URL jobs: mkdir / writeFile throws outside every try
WriteCrashes ==
    /\ InLoop
    /\ job \in DirectUrlJobs
    /\ Obtained(i) # Null
    /\ manifest.hasFiles
    /\ ~SameHash(manifest.files[i], hashContent(Obtained(i)))
    /\ ~isDryRun
    /\ CanFault
    /\ fetched' = fetched + 1
    /\ WriteFailure(i)
    /\ Logged(i, <<Status(manifest.files[i])>>, <<"fetched">>)
    /\ Crashed
    /\ UNCHANGED <<ctx, manifestFile, dirs, newManifest, i, unchanged, failed>>

\* repository jobs: mkdir / writeFile throws inside the try, after copied++
WriteCaught ==
    /\ InLoop
    /\ job \in RepoJobs
    /\ Obtained(i) # Null
    /\ manifest.hasFiles
    /\ ~SameHash(manifest.files[i], hashContent(Obtained(i)))
    /\ ~isDryRun
    /\ CanFault
    /\ fetched' = fetched + 1
    /\ WriteFailure(i)
    /\ failed' = failed + 1
    /\ Logged(i, <<Status(manifest.files[i]), "error">>, <<"fetched", "failed">>)
    /\ i' = i + 1
    /\ UNCHANGED <<ctx, manifestFile, dirs, pc, newManifest, unchanged,
                   exitCode>>

\* the list is exhausted
LoopDone ==
    /\ pc = "loop"
    /\ i > NumResources
    /\ pc' = IF job = "claude-code" THEN "changelog" ELSE "save"
    /\ UNCHANGED <<ctx, disk, newManifest, i, counters, log, faults, exitCode>>

(***************************************************************************)
(* claude-code: the supplementary changelog, fetched from another origin   *)
(* inside one try block.                                                   *)
(***************************************************************************)
AtChangelog == pc = "changelog"

\* fetch(changelogUrl) throws: catch: " failed", failed++
ChangelogFetchThrows ==
    /\ AtChangelog
    /\ CanFault
    /\ faults' = Faulted("net", ChangelogKey)
    /\ failed' = failed + 1
    /\ Logged(ChangelogKey, <<"failed">>, <<"failed">>)
    /\ pc' = "save"
    /\ UNCHANGED <<ctx, disk, newManifest, i, fetched, unchanged, exitCode>>

\* response.ok is false: the if has no else
ChangelogNotOk ==
    /\ AtChangelog
    /\ remote[ChangelogKey] = Absent
    /\ Logged(ChangelogKey, <<>>, <<>>)
    /\ pc' = "save"
    /\ UNCHANGED <<ctx, disk, newManifest, i, counters, faults, exitCode>>

\* manifest.files is undefined: the lookup throws inside the try
ChangelogLookupCaught ==
    /\ AtChangelog
    /\ remote[ChangelogKey] # Absent
    /\ ~manifest.hasFiles
    /\ failed' = failed + 1
    /\ Logged(ChangelogKey, <<"failed">>, <<"failed">>)
    /\ pc' = "save"
    /\ UNCHANGED <<ctx, disk, newManifest, i, fetched, unchanged, faults,
                   exitCode>>

ChangelogUnchanged ==
    /\ AtChangelog
    /\ remote[ChangelogKey] # Absent
    /\ manifest.hasFiles
    /\ SameHash(manifest.files[ChangelogKey], hashContent(remote[ChangelogKey]))
    /\ unchanged' = unchanged + 1
    /\ newManifest' = [newManifest EXCEPT
          !.files[ChangelogKey] = manifest.files[ChangelogKey]]
    /\ Logged(ChangelogKey, <<"unchanged">>, <<"unchanged">>)
    /\ pc' = "save"
    /\ UNCHANGED <<ctx, disk, i, fetched, failed, faults, exitCode>>

ChangelogWritten ==
    /\ AtChangelog
    /\ remote[ChangelogKey] # Absent
    /\ manifest.hasFiles
    /\ ~SameHash(manifest.files[ChangelogKey], hashContent(remote[ChangelogKey]))
    /\ fetched' = fetched + 1
    /\ IF isDryRun THEN UNCHANGED <<destFiles, dirs>>
       ELSE /\ destFiles' = [destFiles EXCEPT
                   ![ChangelogKey] = remote[ChangelogKey]]
            /\ dirs' = TRUE
    /\ newManifest' = [newManifest EXCEPT !.files[ChangelogKey] =
          NewEntry(ChangelogKey, hashContent(remote[ChangelogKey]), now)]
    /\ Logged(ChangelogKey, <<Status(manifest.files[ChangelogKey])>>,
              <<"fetched">>)
    /\ pc' = "save"
    /\ UNCHANGED <<ctx, manifestFile, i, unchanged, failed, faults, exitCode>>

\* writeFile throws inside the try, after fetched++: " failed", failed++
ChangelogWriteCaught ==
    /\ AtChangelog
    /\ remote[ChangelogKey] # Absent
    /\ manifest.hasFiles
    /\ ~SameHash(manifest.files[ChangelogKey], hashContent(remote[ChangelogKey]))
    /\ ~isDryRun
    /\ CanFault
    /\ fetched' = fetched + 1
    /\ WriteFailure(ChangelogKey)
    /\ failed' = failed + 1
    /\ Logged(ChangelogKey, <<Status(manifest.files[ChangelogKey]), "failed">>,
              <<"fetched", "failed">>)
    /\ pc' = "save"
    /\ UNCHANGED <<ctx, manifestFile, dirs, newManifest, i, unchanged,
                   exitCode>>

(***************************************************************************)
(* main(): manifest save, summary, end of the process.                     *)
(***************************************************************************)
\* SaveManifest without the isDryRun guard
SaveManifestAlways ==
    /\ pc = "save"
    /\ manifestFile' = saveManifest(newManifest, now)
    /\ firstSynced' = firstSynced
    /\ pc' = "summary"
    /\ UNCHANGED <<gd, others, job, remote, head, now, changes, isDryRun, commitHash, manifest, start,
                   summary, prevRun, destFiles, dirs, newManifest, i,
                   counters, log, faults, exitCode>>

\* if (!isDryRun) await saveManifest(newManifest)
SaveManifest ==
    /\ pc = "save"
    /\ manifestFile' = IF isDryRun THEN manifestFile
                       ELSE saveManifest(newManifest, now)
    /\ firstSynced' =
          IF isDryRun THEN firstSynced
          ELSE [k \in AllKeys |->
                  IF firstSynced[k] = 0 /\ newManifest.files[k] # NoEntry
                  THEN newManifest.files[k].lastUpdated
                  ELSE firstSynced[k]]
    /\ pc' = "summary"
    /\ UNCHANGED <<gd, others, job, remote, head, now, changes, isDryRun, commitHash, manifest, start,
                   summary, prevRun, destFiles, dirs, newManifest, i,
                   counters, log, faults, exitCode>>

\* the writeFile of saveManifest throws: the file is as it was, or truncated
SaveThrows ==
    /\ pc = "save"
    /\ ~isDryRun
    /\ CanFault
    /\ faults' = Faulted("save", 0)
    /\ manifestFile' \in {manifestFile, CorruptFile}
    /\ Crashed
    /\ UNCHANGED <<gd, firstSynced, others, job, remote, head, now, changes, isDryRun, commitHash, manifest, start,
                   summary, prevRun, destFiles, dirs, newManifest, i,
                   counters, log>>

\* console.log("Summary") ... Total
PrintSummary ==
    /\ pc = "summary"
    /\ summary' = [printed |-> TRUE, fetched |-> fetched,
                   unchanged |-> unchanged, failed |-> failed,
                   total |-> Total(job)]
    /\ pc' = "done"
    /\ exitCode' = 0
    /\ UNCHANGED <<gd, firstSynced, others, job, remote, head, now, changes, isDryRun, commitHash, manifest, start,
                   prevRun, disk, newManifest, i, counters, log, faults>>

(***************************************************************************)
(* gemini-dev: syncDocs.  No manifest: the pages are fetched in batches,   *)
(* converted to markdown and written.                                      *)
(***************************************************************************)
concurrency == 5

\* the pages of the batch that starts at position b
Batch(b) == {p \in 1 .. pages : b <= p /\ p < b + concurrency}

fetchPage(resp, netError) ==
    IF netError THEN Null
    ELSE IF resp = Absent THEN Null
    ELSE resp

\* extractMainContent / turndown throw on this page
ConversionThrows(html) == html = Unconvertible

\* cleanMarkdown(turndown(extractMainContent(html)), title, url): the
\* frontmatter carries the day of the sync
cleanMarkdown(html, day) == 1000 + 10 * day + html

\* StartBatch over the whole list: DOC_PAGES.map(fetchPage)
StartBatchUnlimited ==
    /\ pc = "fetch"
    /\ inflight' = {p \in 1 .. pages : i <= p}
    /\ batchResults' = Unsettled
    /\ pc' = "await"
    /\ UNCHANGED <<firstSynced, others, job, remote, head, disk, now, changes,
                   isDryRun, commitHash, manifest, newManifest, i, counters,
                   log, faults, start, summary, exitCode, results,
                   successCount, prevRun>>

\* batch.map(fetchPage): every fetch of the batch is started
StartBatch ==
    /\ pc = "fetch"
    /\ inflight' = Batch(i)
    /\ batchResults' = Unsettled
    /\ pc' = "await"
    /\ UNCHANGED <<firstSynced, others, job, remote, head, disk, now, changes, isDryRun, commitHash,
                   manifest, newManifest, i, counters, log, faults, start,
                   summary, exitCode, results, successCount, prevRun>>

\* one fetchPage of the batch settles
FetchSettles ==
    /\ pc = "await"
    /\ \E p \in inflight : \E netError \in BOOLEAN :
          /\ netError => CanFault
          /\ faults' = IF netError THEN Faulted("net", p) ELSE faults
          /\ batchResults' = [batchResults EXCEPT
                ![p] = fetchPage(remote[p], netError)]
          /\ inflight' = inflight \ {p}
    /\ UNCHANGED <<firstSynced, others, job, remote, head, disk, now, changes, isDryRun, commitHash,
                   manifest, newManifest, i, counters, log, start, summary,
                   exitCode, results, successCount, pc, prevRun>>

\* BatchDone without the await of Promise.all
BatchDoneEarly ==
    /\ pc = "await"
    /\ results' = results \o
          [q \in 1 .. Cardinality(Batch(i)) |->
              [page |-> i + q - 1, html |-> batchResults[i + q - 1]]]
    /\ IF i + concurrency <= pages
       THEN /\ i' = i + concurrency
            /\ pc' = "fetch"
       ELSE /\ i' = 1
            /\ pc' = "process"
    /\ UNCHANGED <<firstSynced, others, job, remote, head, disk, now, changes,
                   isDryRun, commitHash, manifest, newManifest, counters,
                   log, faults, start, summary, exitCode, inflight,
                   batchResults, successCount, prevRun>>

\* Promise.all resolves: results.push(...batchResults), next batch
BatchDone ==
    /\ pc = "await"
    /\ inflight = {}
    /\ results' = results \o
          [q \in 1 .. Cardinality(Batch(i)) |->
              [page |-> i + q - 1, html |-> batchResults[i + q - 1]]]
    /\ IF i + concurrency <= pages
       THEN /\ i' = i + concurrency
            /\ pc' = "fetch"
       ELSE /\ i' = 1
            /\ pc' = "process"
    /\ UNCHANGED <<firstSynced, others, job, remote, head, disk, now, changes, isDryRun, commitHash,
                   manifest, newManifest, counters, log, faults, start,
                   summary, exitCode, inflight, batchResults, successCount,
                   prevRun>>

InProcess == pc = "process" /\ i <= Len(results)

\* if (!html) continue
SkipUnfetched ==
    /\ InProcess
    /\ results[i].html = Null
    /\ Logged(results[i].page, <<>>, <<>>)
    /\ i' = i + 1
    /\ UNCHANGED <<ctx, disk, pc, newManifest, counters, faults, exitCode>>

\* ConvertCaught with the loop given up at the page that threw
ConvertCaughtBreaks ==
    /\ InProcess
    /\ results[i].html # Null
    /\ ConversionThrows(results[i].html)
    /\ Logged(results[i].page, <<"failed to process">>, <<>>)
    /\ i' = Len(results) + 1
    /\ UNCHANGED <<ctx, disk, pc, newManifest, counters, faults, exitCode>>

\* extraction or conversion throws: caught, " Failed to process"
ConvertCaught ==
    /\ InProcess
    /\ results[i].html # Null
    /\ ConversionThrows(results[i].html)
    /\ Logged(results[i].page, <<"failed to process">>, <<>>)
    /\ i' = i + 1
    /\ UNCHANGED <<ctx, disk, pc, newManifest, counters, faults, exitCode>>

\* the page is converted and (not in a dry run) written: successCount++
PageSynced ==
    /\ InProcess
    /\ results[i].html # Null
    /\ ~ConversionThrows(results[i].html)
    /\ IF isDryRun THEN UNCHANGED <<destFiles, dirs>>
       ELSE /\ destFiles' = [destFiles EXCEPT
                   ![results[i].page] = cleanMarkdown(results[i].html, now)]
            /\ dirs' = TRUE
    /\ successCount' = successCount + 1
    /\ Logged(results[i].page, <<"synced">>, <<"success">>)
    /\ i' = i + 1
    /\ UNCHANGED <<firstSynced, others, job, remote, head, now, changes, isDryRun, commitHash, manifest,
                   start, summary, prevRun, manifestFile, pc, newManifest,
                   counters, faults, exitCode, results, inflight,
                   batchResults>>

\* mkdir / writeFile throws inside the try: caught, " Failed to process"
SyncWriteCaught ==
    /\ InProcess
    /\ results[i].html # Null
    /\ ~ConversionThrows(results[i].html)
    /\ ~isDryRun
    /\ CanFault
    /\ WriteFailure(results[i].page)
    /\ Logged(results[i].page, <<"failed to process">>, <<>>)
    /\ i' = i + 1
    /\ UNCHANGED <<ctx, manifestFile, dirs, pc, newManifest, counters,
                   exitCode>>

\* console.log(`Synced ${successCount}/${DOC_PAGES.length} pages`)
PrintSynced ==
    /\ pc = "process"
    /\ i > Len(results)
    /\ summary' = [printed |-> TRUE, fetched |-> successCount, unchanged |-> 0,
                   failed |-> 0, total |-> pages]
    /\ pc' = "done"
    /\ exitCode' = 0
    /\ UNCHANGED <<gd, firstSynced, others, job, remote, head, now, changes, isDryRun, commitHash, manifest, start,
                   prevRun, disk, newManifest, i, counters, log, faults>>

Ended == pc \in {"done", "crashed", "exited"}

\* the process is gone; what it did is remembered for the next run
EndRun ==
    /\ Ended
    /\ prevRun' = [ran |-> TRUE, dry |-> isDryRun, end |-> pc,
                   allDone |-> prevRun.allDone /\ pc = "done",
                   startFile |-> start.manifestFile,
                   endFile |-> manifestFile, remote |-> remote,
                   head |-> head,
                   log |-> log, faults |-> faults.run, summary |-> summary]
    /\ pc' = "idle"
    /\ UNCHANGED <<gd, firstSynced, others, job, remote, head, disk, now, changes, isDryRun, commitHash, manifest,
                   newManifest, i, counters, log, faults, start, summary,
                   exitCode>>

Next ==
    \/ RemoteChange
    \/ TamperManifest
    \/ ListShrinks
    \/ TamperFile
    \/ StartRun
    \/ CloneOk
    \/ CloneFails
    \/ EnsureDirs
    \/ EnsureDirsThrows
    \/ LoadManifest
    \/ FetchDocFailed
    \/ SourceNotFound
    \/ ReadThrows
    \/ LookupCrashes
    \/ LookupCaught
    \/ PageUnchanged
    \/ PageWritten
    \/ WriteCrashes
    \/ WriteCaught
    \/ LoopDone
    \/ ChangelogFetchThrows
    \/ ChangelogNotOk
    \/ ChangelogLookupCaught
    \/ ChangelogUnchanged
    \/ ChangelogWritten
    \/ ChangelogWriteCaught
    \/ SaveManifest
    \/ SaveThrows
    \/ PrintSummary
    \/ StartBatch
    \/ FetchSettles
    \/ BatchDone
    \/ SkipUnfetched
    \/ ConvertCaught
    \/ PageSynced
    \/ SyncWriteCaught
    \/ PrintSynced
    \/ EndRun

Spec == Init /\ [][Next]_vars

TypeOK ==
    /\ job \in Jobs
    /\ pc \in {"idle", "clone", "clone2", "mkdir", "load", "loop",
               "changelog", "save", "summary", "fetch", "await", "process",
               "done", "crashed", "exited"}
    /\ fetched \in Nat /\ unchanged \in Nat /\ failed \in Nat
    /\ \A k \in AllKeys : remote[k] \in {Absent} \cup Contents

(***************************************************************************)
(* gemini-dev over a list that takes more than one batch.  One behaviour   *)
(* of SpecBatches is one run of gemini-dev.                                *)
(***************************************************************************)
InitBatches ==
    /\ job = "gemini-dev"
    /\ pages = NumPages
    /\ \E v \in {Absent, 1} :
          remote = [k \in AllKeys |-> IF k = ChangelogKey THEN 1 ELSE v]
    /\ Fresh
    /\ CoordOff
    /\ PairOff

NextBatches ==
    \/ RemoteChange
    \/ StartRun
    \/ EnsureDirs
    \/ EnsureDirsThrows
    \/ StartBatch
    \/ FetchSettles
    \/ BatchDone
    \/ SkipUnfetched
    \/ ConvertCaught
    \/ PageSynced
    \/ SyncWriteCaught
    \/ PrintSynced

SpecBatches == InitBatches /\ [][NextBatches]_vars

(***************************************************************************)
(* sync-all: the coordinator.  It starts the sync script of every selected *)
(* skill as a child process and tallies the results.  One behaviour of     *)
(* SpecAll is one run of the coordinator; the jobs themselves are the      *)
(* children, seen here by their exit status only.                          *)
(***************************************************************************)
SYNCABLE_SKILLS ==
    <<"claude-api", "claude-code", "fastmcp", "gemini-cli", "gemini-dev",
      "gemini-imagen", "langchain", "langgraph", "openai-api", "openai-codex",
      "opencode", "xai">>

Known == {SYNCABLE_SKILLS[n] : n \in 1 .. Len(SYNCABLE_SKILLS)}

\* longest --skill= list of the model
MaxSelected == 2

\* the names a --skill= list is made of: two skills and a name that is none
SkillArgs == {"claude-api", "gemini-dev", "nope"}

\* the command lines: --dry-run or not, --skill=a,b already split at the
\* commas (<<>>: no --skill= option)
Argv ==
    [dryRun : BOOLEAN,
     skill : {<<>>} \cup UNION {[1 .. n -> SkillArgs] : n \in 1 .. MaxSelected}]

parseArgs(argv) ==
    [dryRun |-> argv.dryRun,
     skills |-> IF argv.skill # <<>> THEN argv.skill ELSE SYNCABLE_SKILLS]

\* the variables of the sync jobs
syncVars ==
    <<job, remote, head, manifestFile, destFiles, dirs, now, changes, pc,
      isDryRun, commitHash, manifest, newManifest, i, fetched, unchanged,
      failed, log, faults, start, summary, exitCode, results, inflight,
      batchResults, successCount, firstSynced, prevRun, tampered, pages>>

\* no sync job is followed
SyncOff ==
    /\ job = "claude-api"
    /\ pages = NumResources
    /\ remote = [k \in AllKeys |-> Absent]
    /\ Fresh

\* main(): const { dryRun, skills } = parseArgs(); const results = []
InitAll ==
    /\ SyncOff
    /\ PairOff
    /\ \E argv \in Argv :
          /\ skills = parseArgs(argv).skills
          /\ dryRun = parseArgs(argv).dryRun
    /\ syncResults = <<>>
    /\ cur = 1
    /\ mainPc = "loop"
    /\ children = {}
    /\ pending = {}
    /\ allSummary = NoAllSummary
    /\ allExit = -1

InAllLoop == mainPc = "loop" /\ cur <= Len(skills)

Failure(skill) == [skill |-> skill, success |-> FALSE]

\* the promise of syncSkill resolves: results.push(result), the status line,
\* the next skill
Settle(result) ==
    /\ syncResults' = Append(syncResults, result)
    /\ cur' = cur + 1
    /\ mainPc' = "loop"

\* NoSyncScript with a break of the loop after the result
NoSyncScriptStops ==
    /\ InAllLoop
    /\ syncResults' = Append(syncResults, Failure(skills[cur]))
    /\ cur' = Len(skills) + 1
    /\ UNCHANGED <<syncVars, pair, skills, dryRun, mainPc, children, pending,
                   allSummary, allExit>>

\* syncSkill: !existsSync(syncScript): "No sync script found" (always so for
\* a name that is no skill)
NoSyncScript ==
    /\ InAllLoop
    /\ Settle(Failure(skills[cur]))
    /\ UNCHANGED <<syncVars, pair, skills, dryRun, children, pending, allSummary,
                   allExit>>

\* syncSkill: installDeps throws (bun install fails): caught
InstallDepsThrows ==
    /\ InAllLoop
    /\ skills[cur] \in Known
    /\ Settle(Failure(skills[cur]))
    /\ UNCHANGED <<syncVars, pair, skills, dryRun, children, pending, allSummary,
                   allExit>>

\* Spawn with the promise of syncSkill not awaited by main
SpawnNotAwaited ==
    /\ InAllLoop
    /\ skills[cur] \in Known
    /\ \E spawned \in BOOLEAN :
          IF spawned
          THEN children' = children \cup {cur} /\ pending' = pending
          ELSE pending' = pending \cup {cur} /\ children' = children
    /\ Settle([skill |-> skills[cur], success |-> TRUE])
    /\ UNCHANGED <<syncVars, pair, skills, dryRun, allSummary, allExit>>

\* syncSkill: spawn("bun", args, ...): the child process exists, or the
\* spawn fails and 'error' will be emitted; main awaits the promise
Spawn ==
    /\ InAllLoop
    /\ skills[cur] \in Known
    /\ \E spawned \in BOOLEAN :
          IF spawned
          THEN children' = children \cup {cur} /\ pending' = pending
          ELSE pending' = pending \cup {cur} /\ children' = children
    /\ mainPc' = "await"
    /\ UNCHANGED <<syncVars, pair, skills, dryRun, syncResults, cur, allSummary,
                   allExit>>

\* proc.on("error"): the result is a failure
ChildError ==
    /\ mainPc = "await"
    /\ cur \in pending
    /\ pending' = pending \ {cur}
    /\ Settle(Failure(skills[cur]))
    /\ UNCHANGED <<syncVars, pair, skills, dryRun, children, allSummary, allExit>>

\* ChildClose with a process.exit(1) at the first child that fails
ChildCloseFailFast ==
    /\ mainPc = "await"
    /\ cur \in children
    /\ children' = children \ {cur}
    /\ \E code \in {0, 1} :
          IF code = 0
          THEN /\ Settle([skill |-> skills[cur], success |-> TRUE])
               /\ allExit' = allExit
          ELSE /\ syncResults' = Append(syncResults, Failure(skills[cur]))
               /\ cur' = cur
               /\ mainPc' = "exited"
               /\ allExit' = 1
    /\ UNCHANGED <<syncVars, pair, skills, dryRun, pending, allSummary>>

\* proc.on("close"): the child is gone, with exit status 0 (success) or not
ChildClose ==
    /\ mainPc = "await"
    /\ cur \in children
    /\ children' = children \ {cur}
    /\ \E code \in {0, 1} :
          Settle([skill |-> skills[cur], success |-> code = 0])
    /\ UNCHANGED <<syncVars, pair, skills, dryRun, pending, allSummary, allExit>>

successful == {n \in 1 .. Len(syncResults) : syncResults[n].success}

failedSkills == {n \in 1 .. Len(syncResults) : ~syncResults[n].success}

\* main(): the summary, then process.exit(1) if a result is a failure
Summarize ==
    /\ mainPc = "loop"
    /\ cur > Len(skills)
    /\ allSummary' = [printed |-> TRUE, successful |-> Cardinality(successful),
                      failed |-> Cardinality(failedSkills)]
    /\ allExit' = IF Cardinality(failedSkills) > 0 THEN 1 ELSE 0
    /\ mainPc' = "exited"
    /\ UNCHANGED <<syncVars, pair, skills, dryRun, syncResults, cur, children,
                   pending>>

NextAll ==
    \/ NoSyncScript
    \/ InstallDepsThrows
    \/ Spawn
    \/ ChildError
    \/ ChildClose
    \/ Summarize

SpecAll == InitAll /\ [][NextAll]_vars

(***************************************************************************)
(* Two different jobs side by side.  Each process takes the steps of its   *)
(* script that touch the disk (clone, load of the manifest, one resource,  *)
(* save of the manifest); the steps of the two interleave freely.  One     *)
(* behaviour of SpecPair is one run of each of the two jobs, without I/O   *)
(* faults.                                                                 *)
(***************************************************************************)
\* the keys of job j in the order the script handles them
JobSeq(j) ==
    [n \in 1 .. Total(j) |-> IF n <= NumResources THEN n ELSE ChangelogKey]

\* the process of job j as it starts
StartProc(j, d) ==
    [job |-> j, dry |-> d,
     pc |-> IF j \in RepoJobs THEN "clone"
            ELSE IF j = "gemini-dev" THEN "fetch" ELSE "load",
     i |-> 1, manifest |-> NoHashes, newManifest |-> NoHashes,
     results |-> NoHashes]

\* every job was run once before, when every origin served content 1
SyncedWorld ==
    [files |-> [d \in Dirs |-> [k \in PairKeys |->
        IF \E j \in ManifestJobs : d \in Used(j) /\ k \in JobKeys(j) THEN 1
        ELSE IF d = RESOURCES_DIR("gemini-dev") /\ k \in DOC_PAGES
             THEN cleanMarkdown(1, 0)
        ELSE NoFile]],
     manifests |-> [d \in Dirs |-> [k \in PairKeys |->
        IF \E j \in ManifestJobs : d = RESOURCES_DIR(j) /\ k \in JobKeys(j)
        THEN hashContent(1) ELSE 0]]]

\* cloneOrPull: the clone directories hold what the origin has
CloneStep(P, W, O) ==
    [proc |-> [P EXCEPT !.pc = "load"],
     world |-> [W EXCEPT !.files = [d \in Dirs |->
        IF d \in Used(P.job) \ {RESOURCES_DIR(P.job)}
        THEN [k \in PairKeys |->
                IF k \in DOC_PAGES /\ SourceDir(P.job, k) = d THEN O[k]
                ELSE W.files[d][k]]
        ELSE W.files[d]]]]

\* loadManifest: the hashes of MANIFEST_FILE
LoadStep(P, W, O) ==
    [proc |-> [P EXCEPT !.pc = "loop",
                        !.manifest = W.manifests[RESOURCES_DIR(P.job)]],
     world |-> W]

\* one turn of the loop of a manifest-based job (the changelog of claude-code
\* is the last one)
ResourceStep(P, W, O) ==
    LET k == JobSeq(P.job)[P.i]
        c == IF P.job \in RepoJobs THEN W.files[SourceDir(P.job, k)][k]
             ELSE IF k = ChangelogKey THEN O[k]
             ELSE fetchDoc(O[k], FALSE)
        next == [P EXCEPT !.i = P.i + 1,
                          !.pc = IF P.i = Total(P.job) THEN "save" ELSE "loop"]
    IN  IF c = Null THEN [proc |-> next, world |-> W]
        ELSE IF P.manifest[k] = hashContent(c)
        THEN [proc |-> [next EXCEPT !.newManifest[k] = P.manifest[k]],
              world |-> W]
        ELSE [proc |-> [next EXCEPT !.newManifest[k] = hashContent(c)],
              world |-> IF P.dry THEN W
                        ELSE [W EXCEPT
                                !.files[RESOURCES_DIR(P.job)][k] = c]]

\* saveManifest
SaveStep(P, W, O) ==
    [proc |-> [P EXCEPT !.pc = "done"],
     world |-> IF P.dry THEN W
               ELSE [W EXCEPT
                       !.manifests[RESOURCES_DIR(P.job)] = P.newManifest]]

\* gemini-dev: the batches of fetchPage
FetchStep(P, W, O) ==
    [proc |-> [P EXCEPT !.pc = "process",
                        !.results = [k \in PairKeys |->
                            IF k \in DOC_PAGES THEN fetchPage(O[k], FALSE)
                            ELSE Null]],
     world |-> W]

\* gemini-dev: one turn of the processing loop
ProcessStep(P, W, O) ==
    LET html == P.results[P.i]
        next == [P EXCEPT !.i = P.i + 1,
                          !.pc = IF P.i = NumResources THEN "done"
                                 ELSE "process"]
    IN  [proc |-> next,
         world |-> IF html = Null \/ ConversionThrows(html) \/ P.dry THEN W
                   ELSE [W EXCEPT !.files[RESOURCES_DIR(P.job)][P.i] =
                                      cleanMarkdown(html, 1)]]

\* the next step of process P
Step(P, W, O) ==
    CASE P.pc = "clone" -> CloneStep(P, W, O)
      [] P.pc = "load" -> LoadStep(P, W, O)
      [] P.pc = "loop" -> ResourceStep(P, W, O)
      [] P.pc = "save" -> SaveStep(P, W, O)
      [] P.pc = "fetch" -> FetchStep(P, W, O)
      [] P.pc = "process" -> ProcessStep(P, W, O)

RECURSIVE RunAlone(_, _, _)
\* the directories after process P has run to its end with nobody else
RunAlone(P, W, O) ==
    IF P.pc = "done" THEN W
    ELSE RunAlone(Step(P, W, O).proc, Step(P, W, O).world, O)

\* two different jobs are started, each with or without --dry-run; the
\* origin of process p serves content p for a page, or nothing
InitPair ==
    /\ SyncOff
    /\ CoordOff
    /\ world0 \in {EmptyWorld, SyncedWorld}
    /\ world = world0
    /\ \E a \in Jobs : \E b \in Jobs \ {a} :
          procs \in {<<StartProc(a, FALSE), StartProc(b, FALSE)>>,
                     <<StartProc(a, FALSE), StartProc(b, TRUE)>>,
                     <<StartProc(a, TRUE), StartProc(b, FALSE)>>}
    /\ origin \in [1 .. 2 -> [PairKeys -> {Absent, 1, 2}]]
    /\ \A p \in 1 .. 2 :
          /\ origin[p][ChangelogKey] = 1
          /\ \A k \in DOC_PAGES : origin[p][k] \in {Absent, p}

\* process p takes its next step
Takes(p, at) ==
    /\ procs[p].pc = at
    /\ procs' = [procs EXCEPT ![p] = Step(procs[p], world, origin[p]).proc]
    /\ world' = Step(procs[p], world, origin[p]).world
    /\ UNCHANGED <<syncVars, coord, world0, origin>>

PairClone == \E p \in DOMAIN procs : Takes(p, "clone")

PairLoad == \E p \in DOMAIN procs : Takes(p, "load")

PairResource == \E p \in DOMAIN procs : Takes(p, "loop")

PairSave == \E p \in DOMAIN procs : Takes(p, "save")

PairFetch == \E p \in DOMAIN procs : Takes(p, "fetch")

PairProcess == \E p \in DOMAIN procs : Takes(p, "process")

NextPair ==
    \/ PairClone
    \/ PairLoad
    \/ PairResource
    \/ PairSave
    \/ PairFetch
    \/ PairProcess

SpecPair == InitPair /\ [][NextPair]_vars

(***************************************************************************)
(* Properties.                                                             *)
(***************************************************************************)
Running == pc # "idle"

\* the failures of one resource that the loop anticipates
Anticipated == {<<"fetch failed">>, <<"not found">>, <<"error">>}

\* the content the run got for a key it attempted (Null: none)
FetchedContent(k) == IF k = ChangelogKey THEN remote[k] ELSE Obtained(k)

\* the fetch or read of key k succeeded in this run
FetchedOk(k) ==
    /\ FetchedContent(k) # Null
    /\ <<"net", k>> \notin faults.run
    /\ <<"read", k>> \notin faults.run

\* C1: in a manifest-based job the attempts follow the list order, and a
\* failed fetch, a missing source file or a read error of resource k is
\* followed by the attempt of resource k+1: the run does not stop there.
C1_FailureDoesNotStopRun ==
    (job \in ManifestJobs /\ Running) =>
        \A n \in 1 .. Len(log) :
            /\ n <= NumResources => log[n].key = n
            /\ (n < NumResources /\ log[n].printed \in Anticipated) =>
                  IF Len(log) > n THEN log[n + 1].key = n + 1
                  ELSE pc = "loop" /\ i = n + 1

\* a run that went to its end although its first resource failed
C1_Witness ==
    /\ job \in ManifestJobs
    /\ pc = "done"
    /\ Len(log) >= NumResources
    /\ log[1].printed \in Anticipated
    /\ log[NumResources].printed # <<>>

\* C2: whenever the summary is printed, fetched + unchanged + failed is the
\* printed total.
C2_CountersSumToTotal ==
    (job \in ManifestJobs /\ summary.printed) =>
        summary.fetched + summary.unchanged + summary.failed = summary.total

\* C3: in a completed run every resource, the changelog included, has
\* incremented exactly one of the three counters.
C3_ExactlyOneOutcome ==
    (job \in ManifestJobs /\ pc = "done") =>
        /\ Len(log) = Total(job)
        /\ \A n \in 1 .. Len(log) : Len(log[n].incs) = 1

\* C4: a resource whose fetched content hashes to the hash of its entry in
\* the previous manifest gets, in the new manifest and in the manifest file
\* once it is saved, that entry, with its lastUpdated.
C4_UnchangedEntryCarried ==
    (job \in ManifestJobs /\ Running) =>
        \A n \in 1 .. Len(log) :
            LET k == log[n].key IN
            (/\ FetchedOk(k)
             /\ manifest.hasFiles
             /\ SameHash(manifest.files[k], hashContent(FetchedContent(k)))) =>
                /\ newManifest.files[k] = manifest.files[k]
                /\ (pc \in {"summary", "done"} /\ ~isDryRun) =>
                      manifestFile.files[k] = manifest.files[k]

\* an unchanged resource whose entry is older than this run, saved again
C4_Witness ==
    /\ job \in ManifestJobs
    /\ pc = "done"
    /\ ~isDryRun
    /\ \E n \in 1 .. Len(log) :
          /\ log[n].printed = <<"unchanged">>
          /\ manifest.files[log[n].key].lastUpdated < now
          /\ manifestFile.files[log[n].key] = manifest.files[log[n].key]

\* the run reported key k at position n as new or updated
Reported(n) == log[n].printed # <<>> /\ log[n].printed[1] \in {"new", "updated"}

Counted(n, counter) == \E q \in 1 .. Len(log[n].incs) : log[n].incs[q] = counter

C6_StampOfFirstSync ==
    (job \in ManifestJobs /\ changes = 0 /\ prevRun.allDone
        /\ pc \notin {"crashed", "exited"} /\ manifestFile.kind = "ok") =>
        \A k \in Keyed(manifestFile.files) :
            manifestFile.files[k].lastUpdated = firstSynced[k]

\* C6 (amended): when a run replaces the manifest file, an entry keeps its
\* lastUpdated exactly when the replaced file had an entry with the same
\* hash for the key; otherwise (another hash, or no entry: the resource
\* failed in the run before, or the file was not a manifest) it carries
\* this run's timestamp.
C6_StampKeptWhileEntryPresent ==
    [][(job \in ManifestJobs /\ pc = "save" /\ manifestFile' # manifestFile
          /\ manifestFile'.kind = "ok") =>
        \A k \in Keyed(manifestFile'.files) :
            IF manifestFile.kind = "ok"
               /\ SameHash(manifestFile.files[k], manifestFile'.files[k].hash)
            THEN manifestFile'.files[k].lastUpdated
                    = manifestFile.files[k].lastUpdated
            ELSE manifestFile'.files[k].lastUpdated = now]_vars

\* a saved manifest with an entry that kept an older stamp and an entry that
\* re-entered with a new stamp although its content had been synced before
C6_Witness ==
    /\ job \in ManifestJobs
    /\ pc = "done"
    /\ ~isDryRun
    /\ manifestFile.kind = "ok"
    /\ \E k \in Keyed(manifestFile.files) :
          /\ start.manifestFile.files[k] = manifestFile.files[k]
          /\ manifestFile.files[k].lastUpdated < now
    /\ \E k \in Keyed(manifestFile.files) :
          /\ start.manifestFile.files[k] = NoEntry
          /\ firstSynced[k] # 0
          /\ firstSynced[k] < manifestFile.files[k].lastUpdated

\* C7: a run started with --dry-run leaves the manifest file, every
\* destination file and the destination directories as they were.
C7_PreviewWritesNothing ==
    (isDryRun /\ Running) =>
        /\ manifestFile = start.manifestFile
        /\ destFiles = start.destFiles
        /\ dirs = start.dirs

\* a completed preview that detected a change
C7_Witness ==
    /\ isDryRun
    /\ pc = "done"
    /\ \/ \E n \in 1 .. Len(log) : log[n].printed = <<"updated">>
       \/ successCount > 0

\* this run is a live run that follows a completed preview of the same
\* manifest file and the same remote, with the same fetch faults and no
\* failed write
AfterPreview ==
    /\ job \in ManifestJobs
    /\ pc = "done"
    /\ ~isDryRun
    /\ prevRun.ran
    /\ prevRun.dry
    /\ prevRun.end = "done"
    /\ prevRun.startFile = start.manifestFile
    /\ prevRun.remote = remote
    /\ prevRun.faults = faults.run
    /\ \A f \in faults.run : f[1] \notin {"write", "save", "mkdir"}

\* C8: such a live run prints the status sequence and the summary counters
\* of the preview.
C8_PreviewMatchesLive ==
    AfterPreview =>
        /\ Len(log) = Len(prevRun.log)
        /\ \A n \in 1 .. Len(log) :
              /\ log[n].key = prevRun.log[n].key
              /\ log[n].printed = prevRun.log[n].printed
        /\ summary = prevRun.summary

\* a preview and a live run that both report an update
C8_Witness ==
    /\ AfterPreview
    /\ summary.fetched > 0
    /\ summary.unchanged > 0
    /\ \E n \in 1 .. Len(log) : log[n].printed = <<"updated">>

\* C9: a run that finds an unparsable manifest file goes on with the empty
\* manifest: it is not ended by it, and what it fetches is reported new.
C9_CorruptManifestFreshStart ==
    (job \in ManifestJobs /\ Running /\ start.manifestFile.kind = "corrupt") =>
        /\ manifest = EmptyManifest
        /\ pc \in {"crashed", "exited"} => faults.run # {}
        /\ \A n \in 1 .. Len(log) :
              /\ log[n].printed \notin {<<"unchanged">>, <<"updated">>}
              /\ FetchedOk(log[n].key) =>
                    log[n].printed # <<>> /\ log[n].printed[1] = "new"

\* a completed run over an unparsable manifest file with every resource new
C9_Witness ==
    /\ job \in ManifestJobs
    /\ start.manifestFile.kind = "corrupt"
    /\ pc = "done"
    /\ summary.fetched = Total(job)
    /\ \A n \in 1 .. Len(log) : log[n].printed = <<"new">>

\* this run follows at once a completed live run: the manifest file is the
\* one that run saved and the remote is the same
Successive ==
    /\ job \in ManifestJobs
    /\ pc = "done"
    /\ prevRun.ran
    /\ ~prevRun.dry
    /\ prevRun.end = "done"
    /\ prevRun.endFile = start.manifestFile
    /\ prevRun.remote = remote
    /\ prevRun.head = head

\* C10 as stated: the second run counts no fetched resource and reports
\* every configured resource unchanged.
C10_SecondRunAllUnchanged ==
    Successive =>
        /\ summary.fetched = 0
        /\ Len(log) = Total(job)
        /\ \A n \in 1 .. Len(log) : log[n].printed = <<"unchanged">>

\* C10 (amended): the second run reports unchanged every resource that has
\* an entry in the manifest the first run saved and that it fetches again;
\* it counts as fetched only resources without such an entry; and it counts
\* none when the first run recorded every configured resource.
C10_SecondRunRecordedUnchanged ==
    Successive =>
        /\ \A n \in 1 .. Len(log) :
              LET k == log[n].key IN
              /\ (prevRun.endFile.files[k] # NoEntry /\ FetchedOk(k)) =>
                    log[n].printed = <<"unchanged">>
              /\ Counted(n, "fetched") => prevRun.endFile.files[k] = NoEntry
        /\ Keyed(prevRun.endFile.files) = JobKeys(job) => summary.fetched = 0

\* a second run with everything unchanged
C10_Witness ==
    /\ Successive
    /\ summary.fetched = 0
    /\ summary.unchanged = Total(job)
    /\ \A n \in 1 .. Len(log) : log[n].printed = <<"unchanged">>

\* C11 as stated: the manifest file a live run saves right after a completed
\* live run, the remote being the same, is the file that run saved but for
\* lastSync: same keys, same entries, same source commit.
C11_SecondManifestEqualsFirst ==
    (Successive /\ ~isDryRun) =>
        /\ manifestFile.kind = "ok"
        /\ manifestFile.sourceCommit = prevRun.endFile.sourceCommit
        /\ manifestFile.files = prevRun.endFile.files

\* C11 (amended): the second manifest has the source commit of the first,
\* and the entry of the first for every resource the first run recorded and
\* the second run fetched; the two differ in lastSync only when the first
\* run recorded every configured resource and the second fetched each.
C11_SecondManifestKeepsRecorded ==
    (Successive /\ ~isDryRun) =>
        /\ manifestFile.kind = "ok"
        /\ manifestFile.sourceCommit = prevRun.endFile.sourceCommit
        /\ \A n \in 1 .. Len(log) :
              LET k == log[n].key IN
              (prevRun.endFile.files[k] # NoEntry /\ FetchedOk(k)) =>
                  manifestFile.files[k] = prevRun.endFile.files[k]
        /\ (/\ Keyed(prevRun.endFile.files) = JobKeys(job)
            /\ \A k \in JobKeys(job) : FetchedOk(k)) =>
                manifestFile.files = prevRun.endFile.files

\* two saved manifests of a repository job that differ in lastSync only
C11_Witness ==
    /\ Successive
    /\ ~isDryRun
    /\ job \in RepoJobs
    /\ Keyed(manifestFile.files) = JobKeys(job)
    /\ manifestFile.files = prevRun.endFile.files
    /\ manifestFile.sourceCommit = head
    /\ manifestFile.sourceCommit = prevRun.endFile.sourceCommit
    /\ manifestFile.lastSync # prevRun.endFile.lastSync

\* the clone or the update of a repository failed in this run
CloneFailed == \E f \in faults.run : f[1] \in {"clone", "clone2"}

\* C12: a repository job whose clone or update failed (either one, in
\* openai-api) is ended by it with exit status 1, having attempted no
\* resource, changed nothing on the disk (manifest file, destination files,
\* directories) and loaded no manifest.
C12_CloneFailureExitsBeforeWork ==
    (Running /\ CloneFailed) =>
        /\ job \in RepoJobs
        /\ pc = "exited"
        /\ exitCode = 1
        /\ log = <<>>
        /\ i = 1
        /\ manifestFile = start.manifestFile
        /\ destFiles = start.destFiles
        /\ dirs = start.dirs
        /\ manifest = EmptyManifest
        /\ newManifest = EmptyManifest

\* the second clone of a live openai-api run fails, with a manifest on the
\* disk that a load would have read
C12_Witness ==
    /\ job = "openai-api"
    /\ pc = "exited"
    /\ ~isDryRun
    /\ <<"clone2", 0>> \in faults.run
    /\ start.manifestFile.kind = "ok"
    /\ Keyed(start.manifestFile.files) # {}
    /\ exitCode = 1

\* C13: a process that has ended has a non-zero exit status exactly when the
\* clone or the update of a repository failed; whatever happened after the
\* transport setup, the status is zero.
C13_NonZeroOnlyOnCloneFailure ==
    Ended => (exitCode # 0 <=> CloneFailed)

C15_UnchangedFileUntouched ==
    (job \in ManifestJobs /\ Running) =>
        \A n \in 1 .. Len(log) :
            log[n].printed = <<"unchanged">> =>
                destFiles[log[n].key] = start.destFiles[log[n].key]

\* a completed live run that reported unchanged a resource whose destination
\* file is missing or was edited
C15_Witness ==
    /\ job \in ManifestJobs
    /\ pc = "done"
    /\ ~isDryRun
    /\ \E n \in 1 .. Len(log) :
          /\ log[n].printed = <<"unchanged">>
          /\ destFiles[log[n].key] \in {NoFile, Edited}
          /\ destFiles[log[n].key] = start.destFiles[log[n].key]

\* the run reported the resource at position n of the log unchanged, new or
\* updated, and no error after that
Recorded(n) == log[n].printed \in {<<"unchanged">>, <<"new">>, <<"updated">>}

\* C16: once the loop (and the changelog) is over, the new manifest has an
\* entry for a key exactly when the key is configured and the run reported
\* it unchanged, new or updated: none for a resource that failed, whatever
\* the previous manifest had, and none for a key that is configured no more.
\* A live run saves exactly these entries.
C16_EntriesAreThisRunsOutcomes ==
    (job \in ManifestJobs /\ pc \in {"save", "summary", "done"}) =>
        /\ \A k \in AllKeys :
              newManifest.files[k] # NoEntry <=>
                  /\ k \in JobKeys(job)
                  /\ \E n \in 1 .. Len(log) : log[n].key = k /\ Recorded(n)
        /\ (pc # "save" /\ ~isDryRun) =>
              manifestFile.files = newManifest.files

\* a completed run that dropped the entry of a failed resource and the entry
\* of a key that is configured no more, and kept another
C16_Witness ==
    /\ job \in ManifestJobs
    /\ pc = "done"
    /\ ~isDryRun
    /\ manifest.files[OrphanKey] # NoEntry
    /\ manifestFile.files[OrphanKey] = NoEntry
    /\ \E n \in 1 .. Len(log) :
          /\ ~Recorded(n)
          /\ manifest.files[log[n].key] # NoEntry
          /\ manifestFile.files[log[n].key] = NoEntry
    /\ \E n \in 1 .. Len(log) :
          /\ Recorded(n)
          /\ manifestFile.files[log[n].key] # NoEntry

\* the run has loaded the previous manifest
Loaded ==
    \/ pc \in {"loop", "changelog", "save", "summary", "done"}
    \/ pc = "crashed" /\ <<"mkdir", 0>> \notin faults.run

\* C17: from its load to the end of the run the previous manifest is what
\* loadManifest made of the manifest file the run found, and every status
\* the run printed for a resource (the changelog included) is the one the
\* loaded entry of its key gives, whatever the new manifest holds by then.
C17_PreviousManifestFrozen ==
    (job \in ManifestJobs /\ Loaded) =>
        /\ manifest = loadManifest(start.manifestFile)
        /\ \A n \in 1 .. Len(log) :
              LET k == log[n].key
                  old == loadManifest(start.manifestFile).files[k]
                  hash == hashContent(FetchedContent(k)) IN
              (log[n].printed # <<>>
                  /\ log[n].printed[1] \in {"unchanged", "new", "updated"}) =>
                  log[n].printed[1] =
                      IF SameHash(old, hash) THEN "unchanged" ELSE Status(old)

\* a completed live claude-code run whose new manifest differs from the
\* loaded one in the entry of an updated page, with the changelog looked up
\* after it
C17_Witness ==
    /\ job = "claude-code"
    /\ pc = "done"
    /\ ~isDryRun
    /\ Keyed(manifest.files) # {}
    /\ manifest = loadManifest(start.manifestFile)
    /\ manifestFile # start.manifestFile
    /\ \E n \in 1 .. Len(log) :
          /\ log[n].printed = <<"updated">>
          /\ newManifest.files[log[n].key] # manifest.files[log[n].key]
    /\ log[Len(log)].key = ChangelogKey
    /\ log[Len(log)].printed = <<"unchanged">>

\* C18: in a direct-URL job the rate-limit delay has elapsed after every
\* listed page that is followed by the fetch of another listed page,
\* whatever became of it; in a repository job no iteration waits.
C18_DelayBetweenFetches ==
    /\ (job \in DirectUrlJobs /\ Running) =>
          \A n \in 1 .. Len(log) - 1 :
              (log[n].key \in DOC_PAGES /\ log[n + 1].key \in DOC_PAGES) =>
                  log[n].delay = RateLimitDelay(job)
    /\ (job \in RepoJobs /\ Running) =>
          \A n \in 1 .. Len(log) : log[n].delay = 0

\* the response passes the fetch contract: 2xx, at least MinLength
\* characters, no HTML page
PassesContract(resp) == fetchDoc(resp, FALSE) # Null

\* C19: in a direct-URL job a resource the run attempted, listed page or
\* changelog, has an entry in the new manifest or a destination file written
\* by this run only if its response passes the fetch contract, and is
\* counted failed, and nothing else, if it does not.
C19_OnlyValidatedContent ==
    (job \in DirectUrlJobs /\ Running) =>
        \A n \in 1 .. Len(log) :
            LET k == log[n].key IN
            /\ (\/ newManifest.files[k] # NoEntry
                \/ destFiles[k] # start.destFiles[k]) =>
                    PassesContract(remote[k])
            /\ ~PassesContract(remote[k]) => log[n].incs = <<"failed">>

\* C20: a process that an error thrown outside the per-resource handling
\* has ended (not the exit of a failed clone) has printed its summary.
C20_SummaryAfterUnexpectedError ==
    (Ended /\ pc # "exited") => summary.printed

\* C21: in a live run of a manifest-based job the manifest file is the one
\* the run found until the loop and the changelog are over, is replaced as a
\* whole by the new manifest before the summary, and is still the one the
\* run found when the run ends early.
C21_ManifestWrittenOnceAtEnd ==
    (job \in ManifestJobs /\ Running /\ ~isDryRun) =>
        IF pc \in {"summary", "done"}
        THEN manifestFile = saveManifest(newManifest, now)
        ELSE manifestFile = start.manifestFile

\* C22: a resource fetched successfully whose hash is not the one of the
\* previous manifest is printed updated when the previous manifest has an
\* entry for its key and new when it has none, and increments the fetched
\* counter once and no other counter.
C22_NewOrUpdatedCountsFetched ==
    (job \in ManifestJobs /\ Running) =>
        \A n \in 1 .. Len(log) :
            LET k == log[n].key
                old == manifest.files[k] IN
            (/\ manifest.hasFiles
             /\ FetchedOk(k)
             /\ ~SameHash(old, hashContent(FetchedContent(k)))) =>
                /\ log[n].printed = <<Status(old)>>
                /\ log[n].incs = <<"fetched">>

\* the pages of the log that gemini-dev reported with the given message
SaidOf(msg) == {n \in 1 .. Len(log) : log[n].printed = msg}

C25_SideBySideAsOneAfterTheOther ==
    procs # <<>> =>
        /\ Used(procs[1].job) \cap Used(procs[2].job) = {}
        /\ (procs[1].pc = "done" /\ procs[2].pc = "done") =>
              LET P1 == StartProc(procs[1].job, procs[1].dry)
                  P2 == StartProc(procs[2].job, procs[2].dry)
              IN  /\ world =
                        RunAlone(P2, RunAlone(P1, world0, origin[1]), origin[2])
                  /\ world =
                        RunAlone(P1, RunAlone(P2, world0, origin[2]), origin[1])

\* two live runs side by side have ended: one has replaced a file and its
\* manifest entry, the other has dropped an entry whose source is gone
C25_Witness ==
    /\ procs # <<>>
    /\ procs[1].pc = "done"
    /\ procs[2].pc = "done"
    /\ procs[1].job = "openai-codex"
    /\ procs[2].job = "openai-api"
    /\ ~procs[1].dry
    /\ ~procs[2].dry
    /\ world0 = SyncedWorld
    /\ world.files[RESOURCES_DIR("openai-api")][1] = 2
    /\ world.manifests[RESOURCES_DIR("openai-api")][1] = hashContent(2)
    /\ world.manifests[RESOURCES_DIR("openai-codex")][1] = 0

\* C26: between two runs of a manifest-based job, as long as nobody else
\* wrote to the manifest file or to a destination file, every entry of the
\* manifest file has a destination file whose content hashes to the hash of
\* the entry, whatever the runs so far were: previews, completed runs, runs
\* that ended early.
C26_ManifestMatchesDisk ==
    (job \in ManifestJobs /\ ~tampered /\ pc = "idle") =>
        \A k \in AllKeys :
            manifestFile.files[k] # NoEntry =>
                /\ destFiles[k] # NoFile
                /\ hashContent(destFiles[k]) = manifestFile.files[k].hash

\* C27: whatever the manifest file holds, the value loadManifest returned
\* has a files mapping, and no run ends early but for a failed mkdir or
\* write: the lookup of a previous entry never throws.
C27_LoadedManifestHasFiles ==
    (job \in ManifestJobs /\ Loaded) =>
        /\ manifest.hasFiles
        /\ pc = "crashed" => faults.run # {}
        /\ \A n \in 1 .. Len(log) :
              (FetchedOk(log[n].key) /\ faults.run = {}) => Recorded(n)

C28_EverySkillOnce ==
    /\ \A n \in 1 .. Len(syncResults) : syncResults[n].skill = skills[n]
    /\ mainPc \in {"loop", "await"} => Len(syncResults) = cur - 1
    /\ mainPc = "exited" =>
          /\ Len(syncResults) = Len(skills)
          /\ allSummary.successful + allSummary.failed = Len(skills)

\* a run over a --skill= list whose first skill failed and whose second
\* succeeded
C28_Witness ==
    /\ mainPc = "exited"
    /\ Len(skills) = 2
    /\ ~syncResults[1].success
    /\ syncResults[2].success
    /\ allSummary.successful = 1
    /\ allSummary.failed = 1

\* C29: the coordinator has no exit status before every selected skill has
\* its result and the summary is printed, and the status is then non-zero
\* exactly when a result is a failure.
C29_ExitReflectsFailures ==
    /\ mainPc \in {"loop", "await"} => allExit = -1
    /\ mainPc = "exited" =>
          /\ allSummary.printed
          /\ Len(syncResults) = Len(skills)
          /\ allExit \in {0, 1}
          /\ allExit # 0 <=> failedSkills # {}

\* the coordinator ended with status 1 after a failure followed by a success
C29_Witness ==
    /\ mainPc = "exited"
    /\ allExit = 1
    /\ allSummary.printed
    /\ Len(syncResults) >= 2
    /\ ~syncResults[1].success
    /\ syncResults[Len(syncResults)].success

\* the pages whose fetch has settled in the batch that is awaited
Settled == {p \in Batch(i) : batchResults[p] # Unsettled[p]}

\* C30: gemini-dev has at most `concurrency` fetches in flight, all of the
\* batch that is awaited; when a batch is started or awaited, every page
\* before it has its result and no page from it on has one, so that no batch
\* starts before the previous one has settled and no page is fetched twice;
\* the results are in list order, one for each page once the fetches are
\* over.
C30_BatchesOfFive ==
    (job = "gemini-dev" /\ Running) =>
        /\ Cardinality(inflight) <= concurrency
        /\ inflight # {} => pc = "await"
        /\ \A q \in 1 .. Len(results) :
              results[q].page = q /\ results[q].html # Unsettled[q]
        /\ pc \in {"fetch", "await"} =>
              /\ Len(results) = i - 1
              /\ i \in {1 + b * concurrency : b \in 0 .. pages}
        /\ pc = "await" =>
              /\ inflight \subseteq Batch(i)
              /\ Settled = Batch(i) \ inflight
        /\ pc \in {"process", "done"} =>
              /\ Len(results) = pages
              /\ inflight = {}

\* the second batch is awaited: the first one has settled, with a page that
\* could not be fetched, and is in the results
C30_Witness ==
    /\ job = "gemini-dev"
    /\ pc = "await"
    /\ i = concurrency + 1
    /\ inflight = Batch(i)
    /\ inflight # {}
    /\ Len(results) = concurrency
    /\ results[2].html = Null
    /\ results[1].html # Null

====
